---- MODULE Spec2Model ----
(***************************************************************************)
(* Model of hypermvp: the provider-bid ingestion (provider/etl.py,         *)
(* provider/loader.py, provider/validators.py) and the marginal price      *)
(* resolver (analysis/marginal_price.py).                                  *)
(*                                                                         *)
(* Delivery dates are the integers 1..MaxDate; they stand for ISO strings  *)
(* 'YYYY-MM-DD', whose string order (the order min(), max() and SQL        *)
(* BETWEEN use on the VARCHAR column) is the calendar order.  NoDate is    *)
(* an empty / NULL DELIVERY_DATE cell.                                     *)
(* Volumes and capacities are integers in units of 0.0005 MW.              *)
(***************************************************************************)
EXTENDS Integers, Sequences, FiniteSets, TLC

\* ------------------------------------------------------------------ bounds
MaxDate == 3
MaxBatches == 2
MaxOffers == 3
MaxCalls == 1
MaxSaves == 2

MaxUpdates == 3

MaxFrameRows == 2

MaxRequests == 2

MaxAfrrSaves == 3

NoDate == 0
Dates == 1..MaxDate
DateVals == Dates \cup {NoDate}

Files == {"a.xlsx", "b.xlsx"}

\* ------------------------------------------------------------ input files
\* One sheet of an Excel file: whether it has every REQUIRED_COLUMNS entry,
\* and the DELIVERY_DATE cell of each of its rows (one row per value).
ValidSheets == {[cols |-> TRUE, dates |-> {d}] : d \in DateVals}
               \cup {[cols |-> TRUE, dates |-> {1, MaxDate}]}

\* the sheet of tests/provider/test_etl.py that lacks required columns
InvalidSheet == [cols |-> FALSE, dates |-> {1}]

FileContents == {[readable |-> FALSE, sheet |-> InvalidSheet]}
                \cup {[readable |-> TRUE, sheet |-> s] : s \in ValidSheets \cup {InvalidSheet}}

\* A batch: the files handed to one ingestion, in sorted order, with what
\* each holds on disk at that moment.
FileSeqs == {<<"a.xlsx">>, <<"b.xlsx">>, <<"a.xlsx", "b.xlsx">>}

FilesOf(fs) == {b \in [1..Len(fs) -> [name : Files, readable : BOOLEAN,
                                        sheet : ValidSheets \cup {InvalidSheet}]] :
                   \A i \in 1..Len(fs) :
                       /\ b[i].name = fs[i]
                       /\ [readable |-> b[i].readable, sheet |-> b[i].sheet] \in FileContents}

Batches == UNION {FilesOf(fs) : fs \in FileSeqs}

VARIABLES
    raw,      \* the raw provider table: [exists, rows]
    prev,     \* the raw table before the last operation (history)
    last,     \* the last operation: its input and its outcome (history)
    envs,     \* per ingestion so far, the date range it deleted (history)
    afrr_data,      \* the activation table: one row per day and quarter hour
    provider_data,  \* the clean bid table read by the resolver
    results,        \* the frame calculate_marginal_prices returned last
    call,           \* the arguments of that call (history)
    marginal_prices,   \* the marginal_prices table: [exists, rows]
    version_history,   \* the version_history table, in version_id order
    last_version,      \* the last add_version_metadata call: its arguments (history)
    last_update,       \* the last update_provider_data call: its input (history)
    last_save,         \* the last resolve-and-save and the tables before it (history)
    clean_table,       \* the clean bid table of update_provider_data_in_db: [exists, rows]
    processed,         \* the files moved to the processed directories: [provider, afrr]
    last_cli,          \* the last command-line or workflow operation (history)
    frame,          \* the raw frame handed to the last cleaning (history)
    cleaned,        \* what that cleaning produced: [op, raised, rows]
    last_afrr,      \* the last direct save_afrr_to_duckdb call (history)
    request,        \* the get_with_retry call in progress or finished last
    procs              \* per concurrent run_etl call: where it is and what it extracted

ingest_vars == <<raw, prev, last, envs>>

resolver_vars == <<afrr_data, provider_data, results, call>>

save_vars == <<marginal_prices, version_history, last_save, last_version, last_update>>

cli_vars == <<clean_table, processed, last_cli>>

clean_vars == <<frame, cleaned>>

\* the run_etl calls that run at the same time
Procs == {1, 2}

vars == <<raw, prev, last, envs, afrr_data, provider_data, results, call,
          marginal_prices, version_history, last_save, last_version, last_update,
          clean_table, processed, last_cli, frame, cleaned, request, last_afrr, procs>>

\* number of ingestions started; the next one stamps its rows with nbatch + 1
nbatch == Len(envs)

MinOf(S) == CHOOSE x \in S : \A y \in S : x <= y
MaxOf(S) == CHOOSE x \in S : \A y \in S : x >= y

\* rows a sheet contributes when inserted by batch b from file f
SheetRows(f, s, b) == {[date |-> d, file |-> f, batch |-> b] : d \in s.dates}

InEnvelope(r, lo, hi) == r.date # NoDate /\ lo <= r.date /\ r.date <= hi

DeleteBetweenExclusive(rows, lo, hi) ==
    {r \in rows : ~(r.date # NoDate /\ lo < r.date /\ r.date < hi)}

DeleteEndpointsOnly(rows, lo, hi) == {r \in rows : r.date \notin {lo, hi}}

\* DELETE FROM t WHERE DELIVERY_DATE BETWEEN lo AND hi (a NULL or empty date
\* never satisfies BETWEEN)
DeleteBetween(rows, lo, hi) == {r \in rows : ~InEnvelope(r, lo, hi)}

RECURSIVE SumSeq(_)
SumSeq(q) == IF q = <<>> THEN 0 ELSE Head(q) + SumSeq(Tail(q))

\* ------------------------------------------------------------- validators
\* validate_excel_columns: no required column is missing
validate_excel_columns(s) == s.cols

validate_sheets_accept_all(s) == TRUE

validate_sheets(s) == validate_excel_columns(s)

\* the non-empty DELIVERY_DATE values of a sheet
NonEmptyDates(s) == s.dates \ {NoDate}

\* extract_date_range: (None, None) when the sheet has no DELIVERY_DATE value
extract_date_range(s) ==
    IF NonEmptyDates(s) = {}
    THEN [min |-> NoDate, max |-> NoDate]
    ELSE [min |-> MinOf(NonEmptyDates(s)), max |-> MaxOf(NonEmptyDates(s))]

\* ------------------------------------------------------------------ run_etl
\* The extraction loop of run_etl, files i..Len(batch): st carries extracted,
\* errors, total_rows, min_date and max_date (NoDate stands for None).
RECURSIVE etl_extract(_, _, _)
etl_extract(batch, i, st) ==
    IF i > Len(batch) THEN st
    ELSE LET f == batch[i]
             s == f.sheet
             d == NonEmptyDates(s)
         IN  IF ~f.readable
             THEN etl_extract(batch, i + 1,
                      [st EXCEPT !.errors = Append(@, [file |-> f.name, sheet |-> FALSE])])
             ELSE IF ~validate_sheets(s)
             THEN etl_extract(batch, i + 1,
                      [st EXCEPT !.errors = Append(@, [file |-> f.name, sheet |-> TRUE])])
             ELSE etl_extract(batch, i + 1,
                      [st EXCEPT
                          !.extracted = Append(@, [file |-> f.name, sheet |-> s]),
                          !.total_rows = @ + Cardinality(s.dates),
                          !.min_date = IF d = {} THEN @
                                       ELSE IF @ = NoDate \/ MinOf(d) < @ THEN MinOf(d) ELSE @,
                          !.max_date = IF d = {} THEN @
                                       ELSE IF @ = NoDate \/ MaxOf(d) > @ THEN MaxOf(d) ELSE @])

\* load_provider_data(extracted, db_path, table_name): creates the table when
\* it is missing and inserts every row of every extracted frame.
load_provider_data(t, extracted, b) ==
    [exists |-> TRUE,
     rows |-> t.rows \cup UNION {SheetRows(extracted[k].file, extracted[k].sheet, b) :
                                  k \in 1..Len(extracted)}]

create_table_if_not_exists(t) == [t EXCEPT !.exists = TRUE]

run_etl_counting_sheets(t, batch, b) ==
    LET st == etl_extract(batch, 1, [extracted |-> <<>>, errors |-> <<>>, total_rows |-> 0,
                                     min_date |-> NoDate, max_date |-> NoDate])
        created == create_table_if_not_exists(t)
        deleted == IF st.min_date # NoDate /\ st.max_date # NoDate
                   THEN [created EXCEPT !.rows = DeleteBetween(@, st.min_date, st.max_date)]
                   ELSE created
    IN  [table |-> IF st.extracted # <<>>
                   THEN load_provider_data(deleted, st.extracted, b) ELSE t,
         files_processed |-> Len(batch), sheets_loaded |-> Len(st.extracted),
         rows_loaded |-> Len(st.extracted), errors |-> st.errors,
         min_date |-> st.min_date, max_date |-> st.max_date]

\* run_etl on table t, as batch number b: the table afterwards and the summary
run_etl(t, batch, b) ==
    LET st == etl_extract(batch, 1, [extracted |-> <<>>, errors |-> <<>>, total_rows |-> 0,
                                     min_date |-> NoDate, max_date |-> NoDate])
        created == create_table_if_not_exists(t)
        deleted == IF st.min_date # NoDate /\ st.max_date # NoDate
                   THEN [created EXCEPT !.rows = DeleteBetween(@, st.min_date, st.max_date)]
                   ELSE created
    IN  IF st.extracted # <<>>
        THEN [table |-> load_provider_data(deleted, st.extracted, b),
              files_processed |-> Len(batch), sheets_loaded |-> Len(st.extracted),
              rows_loaded |-> st.total_rows, errors |-> st.errors,
              min_date |-> st.min_date, max_date |-> st.max_date]
        ELSE [table |-> t,
              files_processed |-> Len(batch), sheets_loaded |-> 0,
              rows_loaded |-> 0, errors |-> st.errors,
              min_date |-> st.min_date, max_date |-> st.max_date]

\* --------------------------------------- validate_all_excels_in_directory
\* Files i..Len(batch); the first unreadable file, sheet with a missing column
\* or sheet without any DELIVERY_DATE value returns failure at once.
RECURSIVE validate_from(_, _, _)
validate_from(batch, i, st) ==
    IF i > Len(batch) THEN st
    ELSE LET f == batch[i]
             r == extract_date_range(f.sheet)
         IN  IF ~f.readable \/ ~validate_excel_columns(f.sheet) \/ r.min = NoDate
             THEN [ok |-> FALSE, min_date |-> NoDate, max_date |-> NoDate, pairs |-> <<>>]
             ELSE validate_from(batch, i + 1,
                      [st EXCEPT
                          !.min_date = IF @ = NoDate \/ r.min < @ THEN r.min ELSE @,
                          !.max_date = IF @ = NoDate \/ r.max > @ THEN r.max ELSE @,
                          !.pairs = Append(@, [file |-> f.name, sheet |-> f.sheet])])

validate_first_file_only(batch) ==
    IF Len(batch) = 0
    THEN [ok |-> FALSE, min_date |-> NoDate, max_date |-> NoDate, pairs |-> <<>>]
    ELSE validate_from(<<batch[1]>>, 1,
             [ok |-> TRUE, min_date |-> NoDate, max_date |-> NoDate, pairs |-> <<>>])

validate_all_excels_in_directory(batch) ==
    IF Len(batch) = 0
    THEN [ok |-> FALSE, min_date |-> NoDate, max_date |-> NoDate, pairs |-> <<>>]
    ELSE validate_from(batch, 1,
             [ok |-> TRUE, min_date |-> NoDate, max_date |-> NoDate, pairs |-> <<>>])

\* ----------------------------------------------- load_excel_files_to_duckdb
\* The statements of one load are numbered 1 (CREATE TABLE IF NOT EXISTS),
\* 2 (DELETE ... BETWEEN), 2 + k (INSERT of pair k) and Len(pairs) + 3 (COMMIT);
\* failAt is the statement that raises, 0 when none does.
create_raw_provider_table(t) == [t EXCEPT !.exists = TRUE]

\* the INSERT loop from pair k on, inside the open transaction
RECURSIVE insert_pairs(_, _, _, _, _)
insert_pairs(w, pairs, k, failAt, b) ==
    IF k > Len(pairs) THEN w
    ELSE IF failAt = 2 + k THEN [w EXCEPT !.raised = TRUE]
    ELSE insert_pairs(
             [w EXCEPT !.table.rows = @ \cup SheetRows(pairs[k].file, pairs[k].sheet, b),
                       !.total_rows = @ + Cardinality(pairs[k].sheet.dates)],
             pairs, k + 1, failAt, b)

\* the body of the with-block: the working table and whether it raised
load_body(t, min_date, max_date, pairs, failAt, b) ==
    IF failAt = 1 THEN [table |-> t, total_rows |-> 0, raised |-> TRUE]
    ELSE LET created == create_raw_provider_table(t)
         IN  IF failAt = 2 THEN [table |-> created, total_rows |-> 0, raised |-> TRUE]
             ELSE insert_pairs(
                      [table |-> [created EXCEPT !.rows = DeleteBetween(@, min_date, max_date)],
                       total_rows |-> 0, raised |-> FALSE],
                      pairs, 1, failAt, b)

duck_transaction_no_rollback(t, body, commitFails) ==
    [table |-> body.table, total_rows |-> body.total_rows,
     raised |-> body.raised \/ commitFails]

\* duck_transaction: BEGIN, the body, COMMIT; any exception (of the body or of
\* COMMIT) runs ROLLBACK, which restores the table as it was at BEGIN.
duck_transaction(t, body, commitFails) ==
    IF body.raised \/ commitFails
    THEN [table |-> t, total_rows |-> 0, raised |-> TRUE]
    ELSE [table |-> body.table, total_rows |-> body.total_rows, raised |-> FALSE]

load_excel_files_to_duckdb(t, min_date, max_date, pairs, failAt, b) ==
    duck_transaction(t, load_body(t, min_date, max_date, pairs, failAt, b),
                     failAt = Len(pairs) + 3)

\* ------------------------------------------------- marginal price resolver
QuartersPerDay == 96

\* 1 MW in model units of 0.0005 MW
UnitsPerMW == 2000

\* 0.001 MW
Epsilon == 2

\* marginal_price = None
NoPrice == 0 - 1000000

Abs(x) == IF x < 0 THEN 0 - x ELSE x

DigitChar(k) == <<"0", "1", "2", "3", "4", "5", "6", "7", "8", "9">>[k + 1]

\* f"{n:03d}"
Pad3(n) == <<DigitChar(n \div 100), DigitChar((n \div 10) % 10), DigitChar(n % 10)>>

\* f"{n}"
Unpadded(n) ==
    IF n < 10 THEN <<DigitChar(n)>>
    ELSE IF n < 100 THEN <<DigitChar(n \div 10), DigitChar(n % 10)>>
    ELSE Pad3(n)

\* str.replace(c, r) for a one-character c
RECURSIVE ReplaceChar(_, _, _)
ReplaceChar(str, c, r) ==
    IF str = <<>> THEN <<>>
    ELSE (IF Head(str) = c THEN r ELSE <<Head(str)>>) \o ReplaceChar(Tail(str), c, r)

LowerChar(c) ==
    CASE c = "N" -> "n" [] c = "E" -> "e" [] c = "G" -> "g"
      [] c = "P" -> "p" [] c = "O" -> "o" [] c = "S" -> "s" [] OTHER -> c

\* str.lower()
Lower(str) == [i \in 1..Len(str) |-> LowerChar(str[i])]

\* PRODUCT LIKE prefix || '%' || suffix
Like(str, prefix, suffix) ==
    /\ Len(str) >= Len(prefix) + Len(suffix)
    /\ SubSeq(str, 1, Len(prefix)) = prefix
    /\ SubSeq(str, Len(str) - Len(suffix) + 1, Len(str)) = suffix

\* the start of quarter hour i of a day, "von" as (hour, minute)
VonOf(i) == [hour |-> (i - 1) \div 4, minute |-> ((i - 1) % 4) * 15]

\* sequential_number = hour * 4 + (minute // 15) + 1
sequential_number(von) == von.hour * 4 + (von.minute \div 15) + 1

\* product_code = f"NEG_{sequential_number:03d}", for every quarter hour
product_code == [n \in 1..QuartersPerDay |-> <<"N", "E", "G", "_">> \o Pad3(n)]

alternative_product_codes ==
    [n \in 1..QuartersPerDay |->
        {product_code[n],
         ReplaceChar(product_code[n], "_", <<"-">>),
         ReplaceChar(product_code[n], "_", <<>>),
         Lower(product_code[n]),
         <<"N", "E", "G", "_">> \o Unpadded(n),
         <<"N", "E", "G">> \o Pad3(n)}]

\* product_num = product_code.split('_')[1]
product_num == [n \in 1..QuartersPerDay |-> SubSeq(product_code[n], 5, 7)]

\* the three offer queries, as sets of rows of provider_data
exact_offers(pd, day, n) == {o \in pd : o.date = day /\ o.product = product_code[n]}

flexible_offers(pd, day, n) ==
    {o \in pd : o.date = day /\ o.product \in alternative_product_codes[n]}

wildcard_offers(pd, day, n) ==
    {o \in pd : /\ o.date = day
                /\ \/ Like(o.product, <<"N", "E", "G">>, product_num[n])
                   \/ Like(o.product, <<"n", "e", "g">>, product_num[n])}

found_offers_without_listed(pd, day, n) ==
    IF exact_offers(pd, day, n) # {} THEN exact_offers(pd, day, n)
    ELSE wildcard_offers(pd, day, n)

\* the rows the resolver ends up with for quarter hour n of a day
found_offers(pd, day, n) ==
    IF exact_offers(pd, day, n) # {} THEN exact_offers(pd, day, n)
    ELSE IF flexible_offers(pd, day, n) # {} THEN flexible_offers(pd, day, n)
    ELSE wildcard_offers(pd, day, n)

Before_row_order_only(a, b, up) == IF up THEN a.id <= b.id ELSE a.id >= b.id

\* ORDER BY ENERGY_PRICE__EUR_MWh_ ASC: ascending price; the order of rows of
\* equal price is the store's choice, here by row id upwards (up) or downwards.
Before(a, b, up) ==
    \/ a.price < b.price
    \/ a.price = b.price /\ (IF up THEN a.id <= b.id ELSE a.id >= b.id)

RECURSIVE order_by_price(_, _)
order_by_price(S, up) ==
    IF S = {} THEN <<>>
    ELSE LET first == CHOOSE a \in S : \A b \in S : Before(a, b, up)
         IN  <<first>> \o order_by_price(S \ {first}, up)

available_capacity_first_offer(offers) == offers[1].capacity

\* offers['capacity'].sum()
available_capacity(offers) == SumSeq([k \in 1..Len(offers) |-> offers[k].capacity])

RECURSIVE merit_order_strict(_, _, _, _)
merit_order_strict(offers, k, cumulative_capacity, activated_volume) ==
    IF k > Len(offers) THEN NoPrice
    ELSE IF cumulative_capacity + offers[k].capacity > activated_volume
    THEN offers[k].price
    ELSE merit_order_strict(offers, k + 1, cumulative_capacity + offers[k].capacity,
                            activated_volume)

\* the merit-order loop from offer k on: the price of the first offer at which
\* cumulative_capacity >= activated_volume, None when the offers run out
RECURSIVE merit_order(_, _, _, _)
merit_order(offers, k, cumulative_capacity, activated_volume) ==
    IF k > Len(offers) THEN NoPrice
    ELSE IF cumulative_capacity + offers[k].capacity >= activated_volume
    THEN offers[k].price
    ELSE merit_order(offers, k + 1, cumulative_capacity + offers[k].capacity,
                     activated_volume)

no_activation_only_zero(activated_volume) == activated_volume = 0

\* abs(activated_volume) < 0.001
no_activation(activated_volume) == Abs(activated_volume) < Epsilon

row(day, iv, capacity, price) ==
    [date |-> day, quarter_hour_start |-> iv.von, activated_volume_mw |-> iv.vol,
     available_capacity_mw |-> capacity, marginal_price |-> price,
     product_code |-> product_code[sequential_number(iv.von)]]

no_offers_rows_skipped(day, iv) == {}

\* the row appended when no query finds an offer
no_offers_rows(day, iv) == {row(day, iv, 0, NoPrice)}

\* the rows an interval with activation appends, given the offers found
resolved_rows(day, iv, found, up) ==
    IF found = {}
    THEN no_offers_rows(day, iv)
    ELSE LET offers == order_by_price(found, up)
         IN  {row(day, iv, available_capacity(offers), merit_order(offers, 1, 0, iv.vol))}

\* the rows one interval appends to results
interval_rows(pd, day, iv, up) ==
    IF no_activation(iv.vol)
    THEN {row(day, iv, 0, NoPrice)}
    ELSE resolved_rows(day, iv, found_offers(pd, day, sequential_number(iv.von)), up)

\* end_date + timedelta(days=1) - timedelta(microseconds=1): an end date given
\* as YYYY-MM-DD text is parsed to a date, and date arithmetic keeps only the
\* whole days of a timedelta, so the result is the next day; a datetime becomes
\* the last microsecond of the same day.
inclusive_end_date(end_date, as_text) == IF as_text THEN end_date + 1 ELSE end_date

\* calculate_marginal_prices(start_date, end_date): every interval of every
\* day of afrr_data with start_date <= Datum::DATE <= the inclusive end date
calculate_marginal_prices(afrr, pd, start_date, end_date, as_text, up) ==
    UNION {interval_rows(pd, iv.Datum, iv, up) :
           iv \in {a \in afrr : /\ start_date <= a.Datum
                                /\ a.Datum <= inclusive_end_date(end_date, as_text)}}

\* ------------------------------------------------------ save_marginal_prices
\* results_df.iterrows(): the rows in the order the resolver appended them
RECURSIVE iterrows(_)
iterrows(S) ==
    IF S = {} THEN <<>>
    ELSE LET first == CHOOSE r \in S : \A q \in S :
                          \/ r.date < q.date
                          \/ /\ r.date = q.date
                             /\ sequential_number(r.quarter_hour_start)
                                    <= sequential_number(q.quarter_hour_start)
         IN  <<first>> \o iterrows(S \ {first})

\* A source_files argument is a text or a list of names; a text is a sequence
\* of pieces.  repr of the items of a list: 'a', 'b'
RECURSIVE repr_items(_)
repr_items(items) ==
    IF items = <<>> THEN <<>>
    ELSE IF Len(items) = 1 THEN <<"'", items[1], "'">>
    ELSE <<"'", items[1], "'", ", ">> \o repr_items(Tail(items))

\* str(source_files): a text is itself, a list is its repr in brackets
py_str(source_files) ==
    IF source_files.is_list
    THEN <<"[">> \o repr_items(source_files.val) \o <<"]">>
    ELSE source_files.val

add_version_metadata_without_increment(vh, source_files, operation_type) ==
    Append(vh, [version_id |-> IF vh = <<>> THEN 0
                               ELSE MaxOf({vh[i].version_id : i \in 1..Len(vh)}),
                operation_type |-> operation_type,
                source_files |-> py_str(source_files)])

\* add_version_metadata: version_id = COALESCE(MAX(version_id), 0) + 1, and one
\* INSERT of (version_id, operation_type, str(source_files))
add_version_metadata(vh, source_files, operation_type) ==
    Append(vh, [version_id |-> (IF vh = <<>> THEN 0
                                ELSE MaxOf({vh[i].version_id : i \in 1..Len(vh)})) + 1,
                operation_type |-> operation_type,
                source_files |-> py_str(source_files)])

\* f"Calculated {len(results_df)} marginal prices for {min_date} to {max_date}"
analysis_message(results_df) ==
    [is_list |-> FALSE,
     val |-> <<"Calculated ">> \o Unpadded(Cardinality(results_df))
             \o <<" marginal prices for ">> \o Unpadded(MinOf({r.date : r \in results_df}))
             \o <<" to ">> \o Unpadded(MaxOf({r.date : r \in results_df}))]

delete_dates_first_only(rows, min_date, max_date) == {x \in rows : x.row.date # min_date}

\* DELETE FROM marginal_prices WHERE date BETWEEN min_date AND max_date
delete_dates(rows, min_date, max_date) ==
    {x \in rows : ~(min_date <= x.row.date /\ x.row.date <= max_date)}

\* save_marginal_prices(results_df), as save number run, on a connection in
\* autocommit mode: every statement that completes is durable at once.
\* failAt is the statement that raises: 1 CREATE TABLE, 2 DELETE, 2 + k the
\* INSERT of row k, Len(rows) + 3 add_version_metadata, 0 none.
save_marginal_prices(mp, vh, results_df, failAt, run) ==
    LET rows == iterrows(results_df)
        dates == {r.date : r \in results_df}
        created == [mp EXCEPT !.exists = TRUE]
        deleted == delete_dates(mp.rows, MinOf(dates), MaxOf(dates))
        inserted(k) == [exists |-> TRUE,
                        rows |-> deleted \cup {[row |-> rows[i], run |-> run] : i \in 1..k}]
    IN  IF results_df = {}
        THEN [table |-> mp, history |-> vh, raised |-> FALSE]
        ELSE IF failAt = 1 THEN [table |-> mp, history |-> vh, raised |-> TRUE]
        ELSE IF failAt = 2 THEN [table |-> created, history |-> vh, raised |-> TRUE]
        ELSE IF failAt \in 3..(Len(rows) + 2)
        THEN [table |-> inserted(failAt - 3), history |-> vh, raised |-> TRUE]
        ELSE IF failAt = Len(rows) + 3
        THEN [table |-> inserted(Len(rows)), history |-> vh, raised |-> TRUE]
        ELSE [table |-> inserted(Len(rows)),
              history |-> add_version_metadata(vh, analysis_message(results_df), <<"ANALYSIS">>),
              raised |-> FALSE]

\* ------------------------------------------------------ update_provider_data
table_name == "provider_data"

\* provider/update_provider_data.py: add_version_metadata first, then DROP TABLE
\* when the table exists, CREATE TABLE, and INSERT of every period group of
\* cleaned_data.  Rows are stored with the number of the update that wrote them.
update_provider_data(t, vh, cleaned_data, run) ==
    [table |-> [exists |-> TRUE, rows |-> {[row |-> r, run |-> run] : r \in cleaned_data}],
     history |-> add_version_metadata(vh, [is_list |-> TRUE, val |-> <<table_name>>],
                                      <<table_name, "_update">>)]

\* f"Added {records_to_add} provider records between {min} and {max}"
import_message(cleaned_data) ==
    [is_list |-> FALSE,
     val |-> <<"Added ">> \o Unpadded(Cardinality(cleaned_data))
             \o <<" provider records between ">>
             \o (IF cleaned_data = {} THEN <<"NaT">>
                 ELSE Unpadded(MinOf({r.date : r \in cleaned_data})))
             \o <<" and ">>
             \o (IF cleaned_data = {} THEN <<"NaT">>
                 ELSE Unpadded(MaxOf({r.date : r \in cleaned_data})))]

\* provider/deprecated/update_provider_data.py: CREATE TABLE when it is missing,
\* DELETE ... WHERE DELIVERY_DATE BETWEEN min AND max of cleaned_data when the
\* table existed (nothing matches when the frame is empty), append of the frame,
\* then add_version_metadata.
update_provider_data_deprecated(t, vh, cleaned_data, run) ==
    LET dates == {r.date : r \in cleaned_data}
        kept == IF t.exists /\ cleaned_data # {}
                THEN {x \in t.rows : ~(MinOf(dates) <= x.row.date /\ x.row.date <= MaxOf(dates))}
                ELSE t.rows
    IN  [table |-> [exists |-> TRUE,
                    rows |-> kept \cup {[row |-> r, run |-> run] : r \in cleaned_data}],
         history |-> add_version_metadata(vh, import_message(cleaned_data), <<"IMPORT">>)]

\* ------------------------------------------------------ provider cleaning
\* A raw row has a PRODUCT, an ENERGY_PRICE_[EUR/MWh] cell (empty, or a text)
\* and an ENERGY_PRICE_PAYMENT_DIRECTION.  A cleaned price is a number in tenths
\* of EUR/MWh, or missing (NaN, NULL).
IsDigit(c) == c \in {"0", "1", "2", "3", "4", "5", "6", "7", "8", "9"}

DigitVal(c) == CHOOSE k \in 0..9 : DigitChar(k) = c

AllDigits(str) == str # <<>> /\ \A i \in 1..Len(str) : IsDigit(str[i])

RECURSIVE IntOf(_)
IntOf(str) ==
    IF str = <<>> THEN 0
    ELSE 10 * IntOf(SubSeq(str, 1, Len(str) - 1)) + DigitVal(str[Len(str)])

\* float(text) and CAST(text AS DOUBLE) on texts with at most one decimal
\* digit: an optional sign, digits, and optionally a point and one digit give a
\* number; "nan" gives NaN; any other text raises.
parse_double(str) ==
    LET neg == str # <<>> /\ str[1] = "-"
        body == IF neg THEN Tail(str) ELSE str
        sign == IF neg THEN 0 - 1 ELSE 1
    IN  IF str = <<"n", "a", "n">> THEN [ok |-> TRUE, missing |-> TRUE, val |-> 0]
        ELSE IF AllDigits(body)
        THEN [ok |-> TRUE, missing |-> FALSE, val |-> sign * 10 * IntOf(body)]
        ELSE IF /\ Len(body) >= 3
                /\ body[Len(body) - 1] = "."
                /\ AllDigits(SubSeq(body, 1, Len(body) - 2))
                /\ IsDigit(body[Len(body)])
        THEN [ok |-> TRUE, missing |-> FALSE,
              val |-> sign * (10 * IntOf(SubSeq(body, 1, Len(body) - 2))
                              + DigitVal(body[Len(body)]))]
        ELSE [ok |-> FALSE, missing |-> FALSE, val |-> 0]

\* astype(str): an empty cell (NaN) becomes the text nan
astype_str(cell) == IF cell.null THEN <<"n", "a", "n">> ELSE cell.text

\* str.startswith("POS_")
startswith_POS(product) == Len(product) >= 4 /\ SubSeq(product, 1, 4) = <<"P", "O", "S", "_">>

\* PRODUCT LIKE 'POS_%': the underscore matches any one character
like_POS(product) == Len(product) >= 4 /\ SubSeq(product, 1, 3) = <<"P", "O", "S">>

adjust_energy_price_always_negated(price, direction) == [price EXCEPT !.val = 0 - @]

\* df.loc[direction == "PROVIDER_TO_GRID", price] *= -1
adjust_energy_price(price, direction) ==
    IF direction = "PROVIDER_TO_GRID" THEN [price EXCEPT !.val = 0 - @] ELSE price

\* clean_provider_data(df): drops the POS_ rows, converts the price texts
\* (raising ValueError when one does not parse) and applies the payment
\* direction.  df is a sequence of raw rows; a cleaned row keeps its position.
clean_provider_data(df) ==
    LET kept == {i \in 1..Len(df) : ~startswith_POS(df[i].product)}
        parsed(i) == parse_double(ReplaceChar(astype_str(df[i].price), ",", <<".">>))
    IN  IF \E i \in kept : ~parsed(i).ok
        THEN [op |-> "clean_provider_data", raised |-> TRUE, rows |-> {}]
        ELSE [op |-> "clean_provider_data", raised |-> FALSE,
              rows |-> {[id |-> i, product |-> df[i].product,
                         price |-> adjust_energy_price(
                                       [missing |-> parsed(i).missing, val |-> parsed(i).val],
                                       df[i].direction)] : i \in kept}]

\* CAST(REPLACE(price, ',', '.') AS DOUBLE): NULL for an empty cell
sql_cast_double(cell) ==
    IF cell.null THEN [ok |-> TRUE, missing |-> TRUE, val |-> 0]
    ELSE parse_double(ReplaceChar(cell.text, ",", <<".">>))

\* CASE WHEN ENERGY_PRICE_PAYMENT_DIRECTION = 'PROVIDER_TO_GRID'
\*      THEN -1 * CAST(...) ELSE CAST(...) END
energy_price_case(price, direction) ==
    IF direction = "PROVIDER_TO_GRID" THEN [price EXCEPT !.val = (0 - 1) * @] ELSE price

\* INSERT INTO provider_data SELECT * FROM clean_data_view, on raw rows df of
\* the date range: a price text that does not cast raises, the exception is
\* logged and swallowed by update_provider_data_in_db and no row is inserted.
insert_clean_data_view(df) ==
    LET kept == {i \in 1..Len(df) : ~like_POS(df[i].product)}
        cast(i) == sql_cast_double(df[i].price)
    IN  IF \E i \in kept : ~cast(i).ok
        THEN [op |-> "update_provider_data_in_db", raised |-> TRUE, rows |-> {}]
        ELSE [op |-> "update_provider_data_in_db", raised |-> FALSE,
              rows |-> {[id |-> i, product |-> df[i].product,
                         price |-> energy_price_case(
                                       [missing |-> cast(i).missing, val |-> cast(i).val],
                                       df[i].direction)] : i \in kept}]

\* ------------------------------------------------------------ get_with_retry
MAX_RETRIES == 5

\* max_retries = max_retries or MAX_RETRIES: None and 0 are both falsy
or_MAX_RETRIES(arg) == IF ~arg.given \/ arg.val = 0 THEN MAX_RETRIES ELSE arg.val

RECURSIVE Pow2(_)
Pow2(k) == IF k = 0 THEN 1 ELSE 2 * Pow2(k - 1)

\* self.delay * (2 ** attempt) * (0.5 + random.random()), in units of the
\* delay; jitter is the low or the high half of the random factor
sleep_time(attempt, jitter) == [base |-> Pow2(attempt), jitter |-> jitter]

\* ------------------------------------- load_excel_to_duckdb and the update
\* CAST(REPLACE(price, ',', '.') AS DOUBLE) succeeds on these cell texts
Castable(price) == price \in {"12,5", "12.5"}

\* the row of a file in the raw table, as load number b
CliRows(f, b) ==
    {[date |-> d, file |-> f.name, batch |-> b, price |-> f.price] : d \in f.sheet.dates}

\* load_excel_to_duckdb(excel_files), files i..Len(batch): an unreadable file
\* and a file with a missing column are skipped, every other file has its rows
\* inserted at once and is appended to processed_files.
RECURSIVE load_excel_from(_, _, _, _)
load_excel_from(batch, i, b, st) ==
    IF i > Len(batch) THEN st
    ELSE LET f == batch[i]
         IN  IF ~f.readable \/ ~f.sheet.cols
             THEN load_excel_from(batch, i + 1, b, st)
             ELSE load_excel_from(batch, i + 1, b,
                      [table |-> [st.table EXCEPT !.rows = @ \cup CliRows(f, b)],
                       total_rows_loaded |-> st.total_rows_loaded + Cardinality(f.sheet.dates),
                       processed_files |-> Append(st.processed_files, f.name)])

load_excel_to_duckdb(t, batch, b) ==
    load_excel_from(batch, 1, b, [table |-> [t EXCEPT !.exists = TRUE],
                                  total_rows_loaded |-> 0, processed_files |-> <<>>])

\* the rows of clean_data_view: raw rows with a date inside the range
clean_data_view(rows, min_date, max_date) ==
    {r \in rows : r.date # NoDate /\ min_date <= r.date /\ r.date <= max_date}

\* update_provider_data_in_db on raw table t and the clean table, on a
\* connection in autocommit mode. proceed is FALSE when the run is interactive
\* and the user declines the deletion. An exception is logged and swallowed.
update_provider_data_in_db(t, clean, proceed) ==
    LET dates == {r.date : r \in t.rows} \ {NoDate}
        min_date == MinOf(dates)
        max_date == MaxOf(dates)
        created == [clean EXCEPT !.exists = TRUE]
        existing == {r \in clean.rows : min_date <= r.date /\ r.date <= max_date}
        deleted == [created EXCEPT !.rows = @ \ existing]
        view == clean_data_view(t.rows, min_date, max_date)
    IN  IF ~t.exists \/ t.rows = {}
        THEN [clean |-> clean, raised |-> FALSE]
        ELSE IF dates = {}
        THEN [clean |-> created, raised |-> FALSE]
        ELSE IF existing # {} /\ ~proceed
        THEN [clean |-> created, raised |-> FALSE]
        ELSE IF \E r \in view : ~Castable(r.price)
        THEN [clean |-> deleted, raised |-> TRUE]
        ELSE [clean |-> [deleted EXCEPT !.rows = @ \cup view], raised |-> FALSE]

\* --------------------------------------------------- process_afrr_workflow
\* re.search(r'(\d{4})_(\d{2})', file_name): the month a file name carries
MonthOf(name) == IF name = "afrr_2024_09.csv" THEN 9 ELSE 10

YearOf(name) == 2024

\* data["month"] = month; data["year"] = year
with_month_year(data, month, year) ==
    {[Datum |-> d.Datum, von |-> d.von, vol |-> d.vol, month |-> month, year |-> year] :
         d \in data}

save_afrr_to_duckdb_month_only(rows, data, month, year, failAt) ==
    LET deleted == {r \in rows : r.month # month}
    IN  IF failAt \in {1, 2} THEN [rows |-> rows, row_count |-> 0, raised |-> TRUE]
        ELSE IF failAt = 3 THEN [rows |-> deleted, row_count |-> 0, raised |-> TRUE]
        ELSE [rows |-> deleted \cup with_month_year(data, month, year),
              row_count |-> Cardinality(data), raised |-> FALSE]

\* save_afrr_to_duckdb(data, month, year) on the rows of afrr_data, on a
\* connection in autocommit mode; an exception is logged and swallowed and
\* the function returns 0. failAt is the statement that raises: 1
\* duckdb.connect, 2 the DELETE of the month and year, 3 the INSERT, 0 none.
save_afrr_to_duckdb(rows, data, month, year, failAt) ==
    LET deleted == {r \in rows : ~(r.month = month /\ r.year = year)}
    IN  IF failAt \in {1, 2} THEN [rows |-> rows, row_count |-> 0, raised |-> TRUE]
        ELSE IF failAt = 3 THEN [rows |-> deleted, row_count |-> 0, raised |-> TRUE]
        ELSE [rows |-> deleted \cup with_month_year(data, month, year),
              row_count |-> Cardinality(data), raised |-> FALSE]

\* the frame process_afrr_workflow loads and filters from a file
afrr_file_data(f) == {[Datum |-> f.Datum, von |-> VonOf(1), vol |-> 0]}

\* The loop of process_afrr_workflow over files i..Len(batch): a file that
\* cannot be read or lacks a required column raises out of the workflow; every
\* other file is saved and then moved to the processed directory.
RECURSIVE afrr_from(_, _, _, _)
afrr_from(batch, i, fails, st) ==
    IF i > Len(batch) THEN st
    ELSE LET f == batch[i]
             saved == save_afrr_to_duckdb(st.rows, afrr_file_data(f), MonthOf(f.name),
                                          YearOf(f.name), fails[i])
         IN  IF ~f.loadable \/ ~f.cols
             THEN [st EXCEPT !.raised = TRUE]
             ELSE afrr_from(batch, i + 1, fails,
                      [rows |-> saved.rows,
                       committed |-> IF saved.row_count > 0
                                     THEN st.committed \cup {f.name} ELSE st.committed,
                       moved |-> st.moved \cup {f.name},
                       raised |-> FALSE])

process_afrr_workflow(rows, batch, fails) ==
    afrr_from(batch, 1, fails, [rows |-> rows, committed |-> {}, moved |-> {}, raised |-> FALSE])

\* ---- the inputs of the resolver
ResolverDays == {1, 2}

Volumes == {0, 0 - 1, Epsilon, 7 * UnitsPerMW, 10 * UnitsPerMW, 25 * UnitsPerMW}

OfferPool == {[id |-> 1, price |-> 10, capacity |-> 5 * UnitsPerMW],
              [id |-> 2, price |-> 20, capacity |-> 5 * UnitsPerMW],
              [id |-> 3, price |-> 30, capacity |-> 10 * UnitsPerMW],
              [id |-> 4, price |-> 20, capacity |-> 10 * UnitsPerMW]}

Books == {B \in SUBSET OfferPool : Cardinality(B) <= MaxOffers}

\* the quarter hours that have bids
BookSlots == {{1}}

RestVolumes == {0, 7 * UnitsPerMW}

\* ---- bids of quarter hour 1 stored under several spellings of the product
NEG_001 == <<"N", "E", "G", "_", "0", "0", "1">>

SpelledPool ==
    {[id |-> 1, product |-> NEG_001, price |-> 10, capacity |-> 5 * UnitsPerMW],
     [id |-> 2, product |-> NEG_001, price |-> 30, capacity |-> 10 * UnitsPerMW],
     [id |-> 3, product |-> <<"N", "E", "G", "-", "0", "0", "1">>,
      price |-> 20, capacity |-> 5 * UnitsPerMW],
     [id |-> 4, product |-> <<"N", "E", "G", "0", "0", "1">>,
      price |-> 20, capacity |-> 10 * UnitsPerMW],
     [id |-> 5, product |-> <<"n", "e", "g", "_", "0", "0", "1">>,
      price |-> 15, capacity |-> 5 * UnitsPerMW],
     [id |-> 6, product |-> <<"N", "E", "G", "_", "1">>,
      price |-> 25, capacity |-> 5 * UnitsPerMW],
     [id |-> 7, product |-> <<"N", "E", "G", " ", "0", "0", "1">>,
      price |-> 5, capacity |-> 5 * UnitsPerMW],
     [id |-> 8, product |-> <<"N", "E", "G", "_", "0", "0", "2">>,
      price |-> 1, capacity |-> 5 * UnitsPerMW]}

SpelledBooks == {B \in SUBSET SpelledPool : Cardinality(B) <= MaxOffers}

SpelledVolumes == {0, 7 * UnitsPerMW, 10 * UnitsPerMW, 25 * UnitsPerMW}

\* ---- the inputs of resolve-and-save: activations of these quarter hours
SavedSlots == {1, 2}

SavedVolumes == {0, 7 * UnitsPerMW, 25 * UnitsPerMW}

SavedBooks == {{}, {[id |-> 1, price |-> 10, capacity |-> 5 * UnitsPerMW]}}

\* ---- the Excel files the command line finds in the raw directory
CliContents ==
    {[readable |-> FALSE, sheet |-> InvalidSheet, price |-> "12,5"],
     [readable |-> TRUE, sheet |-> InvalidSheet, price |-> "12,5"],
     [readable |-> TRUE, sheet |-> [cols |-> TRUE, dates |-> {1}], price |-> "12,5"],
     [readable |-> TRUE, sheet |-> [cols |-> TRUE, dates |-> {2}], price |-> "12.5"],
     [readable |-> TRUE, sheet |-> [cols |-> TRUE, dates |-> {1}], price |-> "n/a"]}

CliBatches ==
    {<<[name |-> n, readable |-> c.readable, sheet |-> c.sheet, price |-> c.price]>> :
         n \in Files, c \in CliContents}
    \cup {<<[name |-> "a.xlsx", readable |-> c.readable, sheet |-> c.sheet, price |-> c.price],
            [name |-> "b.xlsx", readable |-> d.readable, sheet |-> d.sheet, price |-> d.price]>> :
              c \in CliContents, d \in CliContents}

\* ---- the CSV files the activation workflow finds in its raw directory
AfrrContents ==
    {[loadable |-> FALSE, cols |-> TRUE, Datum |-> 1],
     [loadable |-> TRUE, cols |-> FALSE, Datum |-> 1],
     [loadable |-> TRUE, cols |-> TRUE, Datum |-> 1],
     [loadable |-> TRUE, cols |-> TRUE, Datum |-> 2],
     [loadable |-> TRUE, cols |-> TRUE, Datum |-> 3]}

AfrrBatches ==
    {<<[name |-> n, loadable |-> c.loadable, cols |-> c.cols, Datum |-> c.Datum]>> :
         n \in {"afrr_2024_09.csv", "afrr_2024_10.csv"}, c \in AfrrContents}
    \cup {<<[name |-> "afrr_2024_09.csv", loadable |-> c.loadable, cols |-> c.cols,
             Datum |-> c.Datum],
            [name |-> "afrr_2024_10.csv", loadable |-> d.loadable, cols |-> d.cols,
             Datum |-> d.Datum]>> : c \in AfrrContents, d \in AfrrContents}

\* ------------------------------------------------------------------ actions
NoOp == [op |-> "none", batch |-> <<>>, id |-> 0, min_date |-> NoDate, max_date |-> NoDate,
         loaded |-> 0, valid |-> TRUE, raised |-> FALSE, failAt |-> 0, again |-> FALSE,
         files_processed |-> 0, errors |-> 0]

NoSave == [prev |-> [exists |-> FALSE, rows |-> {}], prev_history |-> <<>>,
           saved |-> FALSE, raised |-> FALSE, failAt |-> 0,
           min_date |-> NoDate, max_date |-> NoDate, run |-> 0]

NoExtract == [extracted |-> <<>>, errors |-> <<>>, total_rows |-> 0,
              min_date |-> NoDate, max_date |-> NoDate]

Idle == [pc |-> "idle", batch |-> <<>>, st |-> NoExtract]

NoVersion == [n |-> 0, prev |-> <<>>, operation_type |-> <<>>,
              source_files |-> [is_list |-> FALSE, val |-> <<>>]]

NoUpdate == [n |-> 0, deprecated |-> FALSE, prev |-> [exists |-> FALSE, rows |-> {}],
             data |-> {}]

NotCleaned == [op |-> "none", raised |-> FALSE, rows |-> {}]

NoArg == [given |-> FALSE, val |-> 0]

NoRequest == [pc |-> "idle", n |-> 0, arg |-> NoArg, max_retries |-> 0, attempt |-> 0,
              events |-> <<>>]

NoAfrrSave == [n |-> 0, prev |-> {}, data |-> {}, month |-> 0, year |-> 0,
               row_count |-> 0, raised |-> FALSE]

NoCli == [op |-> "none", n |-> 0, prev_clean |-> [exists |-> FALSE, rows |-> {}],
          raised |-> FALSE, committed |-> {}, moved |-> {}]

InitSaveVars ==
    /\ marginal_prices = [exists |-> FALSE, rows |-> {}]
    /\ version_history = <<>>
    /\ last_save = NoSave
    /\ last_version = NoVersion
    /\ last_update = NoUpdate
    /\ frame = <<>>
    /\ cleaned = NotCleaned
    /\ request = NoRequest
    /\ last_afrr = NoAfrrSave
    /\ clean_table = [exists |-> FALSE, rows |-> {}]
    /\ processed = [provider |-> {}, afrr |-> {}]
    /\ last_cli = NoCli
    /\ procs = [p \in Procs |-> Idle]

Init ==
    /\ raw = [exists |-> FALSE, rows |-> {}]
    /\ prev = raw
    /\ last = NoOp
    /\ envs = <<>>
    /\ afrr_data = {}
    /\ provider_data = {}
    /\ results = {}
    /\ call = [start_date |-> 0, end_date |-> 0, as_text |-> TRUE, up |-> TRUE, n |-> 0]
    /\ InitSaveVars

\* provider/cli.py: run_etl over the files of the input directory
RunEtl ==
    /\ nbatch < MaxBatches
    /\ \E batch \in Batches :
         \E res \in {run_etl(raw, batch, nbatch + 1)} :
             /\ raw' = res.table
             /\ last' = [op |-> "run_etl", batch |-> batch, id |-> nbatch + 1,
                         min_date |-> res.min_date, max_date |-> res.max_date,
                         loaded |-> res.rows_loaded,
                         valid |-> Len(res.errors) = 0, raised |-> FALSE, failAt |-> 0,
                         again |-> last.op = "run_etl" /\ last.batch = batch,
                         files_processed |-> res.files_processed,
                         errors |-> Len(res.errors)]
             /\ envs' = Append(envs, IF res.sheets_loaded > 0
                                     THEN [min |-> res.min_date, max |-> res.max_date]
                                     ELSE [min |-> NoDate, max |-> NoDate])
    /\ prev' = raw
    /\ UNCHANGED <<resolver_vars, save_vars, cli_vars, procs, clean_vars, request, last_afrr>>

\* validate_all_excels_in_directory, then load_excel_files_to_duckdb with the
\* date range and the pairs it returned; a failed validation imports nothing.
\* fails: the statements that may raise in this run (0: none raises).
LoadDirectory(fails) ==
    /\ nbatch < MaxBatches
    /\ \E batch \in Batches :
         \E v \in {validate_all_excels_in_directory(batch)} :
             \E failAt \in (IF v.ok THEN fails \cap (0..(Len(v.pairs) + 3)) ELSE {0}) :
                 \E res \in {IF v.ok
                             THEN load_excel_files_to_duckdb(raw, v.min_date, v.max_date,
                                                             v.pairs, failAt, nbatch + 1)
                             ELSE [table |-> raw, total_rows |-> 0, raised |-> FALSE]} :
                     /\ raw' = res.table
                     /\ last' = [op |-> "load", batch |-> batch, id |-> nbatch + 1,
                                 min_date |-> v.min_date, max_date |-> v.max_date,
                                 loaded |-> res.total_rows,
                                 valid |-> v.ok, raised |-> res.raised, failAt |-> failAt,
                                 again |-> last.op = "load" /\ last.batch = batch
                                           /\ ~last.raised,
                                 files_processed |-> Len(batch), errors |-> 0]
                     /\ envs' = Append(envs, IF v.ok /\ ~res.raised
                                             THEN [min |-> v.min_date, max |-> v.max_date]
                                             ELSE [min |-> NoDate, max |-> NoDate])
    /\ prev' = raw
    /\ UNCHANGED <<resolver_vars, save_vars, cli_vars, procs, clean_vars, request, last_afrr>>

LoadExcelFiles == LoadDirectory({0})

LoadExcelFilesMayRaise == LoadDirectory(0..5)

\* The resolver starts from a store that holds the activations of one or two
\* full days, whose volumes repeat with period two, and the bids of day 1 for
\* the listed quarter hours.
InitResolve ==
    /\ raw = [exists |-> FALSE, rows |-> {}]
    /\ prev = raw
    /\ last = NoOp
    /\ envs = <<>>
    /\ \E days \in {{1}, {1, 2}}, pat \in {f \in [{0, 1} -> Volumes] : f[0] \in RestVolumes} :
           afrr_data = {[Datum |-> d, von |-> VonOf(i), vol |-> pat[i % 2]] :
                        d \in days, i \in 1..QuartersPerDay}
    /\ \E B \in Books, slots \in BookSlots :
           provider_data = {[date |-> 1, product |-> product_code[i], price |-> o.price,
                             capacity |-> o.capacity, id |-> o.id] :
                            i \in slots, o \in B}
    /\ results = {}
    /\ call = [start_date |-> 0, end_date |-> 0, as_text |-> TRUE, up |-> TRUE, n |-> 0]
    /\ InitSaveVars

CalculateMarginalPrices ==
    /\ call.n < MaxCalls
    /\ \E start_date \in ResolverDays, end_date \in ResolverDays,
          as_text \in BOOLEAN, up \in BOOLEAN :
           /\ start_date <= end_date
           /\ results' = calculate_marginal_prices(afrr_data, provider_data,
                                                   start_date, end_date, as_text, up)
           /\ call' = [start_date |-> start_date, end_date |-> end_date,
                       as_text |-> as_text, up |-> up, n |-> call.n + 1]
    /\ UNCHANGED <<afrr_data, provider_data>>
    /\ UNCHANGED <<ingest_vars, save_vars, cli_vars, procs, clean_vars, request, last_afrr>>

NextResolve == CalculateMarginalPrices

\* The store holds the activation of quarter hour 1 of two days and, for both
\* days, the same bids, stored under several spellings of the product code.
InitFallback ==
    /\ raw = [exists |-> FALSE, rows |-> {}]
    /\ prev = raw
    /\ last = NoOp
    /\ envs = <<>>
    /\ \E v \in [ResolverDays -> SpelledVolumes] :
           afrr_data = {[Datum |-> d, von |-> VonOf(1), vol |-> v[d]] : d \in ResolverDays}
    /\ \E B \in SpelledBooks :
           provider_data = {[date |-> d, product |-> o.product, price |-> o.price,
                             capacity |-> o.capacity, id |-> o.id] :
                            d \in ResolverDays, o \in B}
    /\ results = {}
    /\ call = [start_date |-> 0, end_date |-> 0, as_text |-> TRUE, up |-> TRUE, n |-> 0]
    /\ InitSaveVars

\* The store of a resolve-and-save: activations of one or two days and the
\* bids of quarter hour 1 of day 1.
InitSave ==
    /\ raw = [exists |-> FALSE, rows |-> {}]
    /\ prev = raw
    /\ last = NoOp
    /\ envs = <<>>
    /\ \E days \in {{1}, {1, 2}}, v \in SavedVolumes :
           afrr_data = {[Datum |-> d, von |-> VonOf(i), vol |-> IF i = 1 THEN v ELSE 0] :
                        d \in days, i \in SavedSlots}
    /\ \E B \in SavedBooks :
           provider_data = {[date |-> 1, product |-> product_code[1], price |-> o.price,
                             capacity |-> o.capacity, id |-> o.id] : o \in B}
    /\ results = {}
    /\ call = [start_date |-> 0, end_date |-> 0, as_text |-> TRUE, up |-> TRUE, n |-> 0]
    /\ InitSaveVars

\* process_analysis_workflow(start_date, end_date): calculate_marginal_prices,
\* then save_marginal_prices unless the frame is empty.
\* fails: the statements of the save that may raise in this run (0: none).
ProcessAnalysis(fails) ==
    /\ call.n < MaxSaves
    /\ \E start_date \in ResolverDays, end_date \in ResolverDays,
          as_text \in BOOLEAN, up \in BOOLEAN :
         /\ start_date <= end_date
         /\ \E res \in {calculate_marginal_prices(afrr_data, provider_data,
                                                  start_date, end_date, as_text, up)} :
              \E failAt \in (IF res = {} THEN {0} ELSE fails \cap 0..(Cardinality(res) + 3)) :
                \E s \in {save_marginal_prices(marginal_prices, version_history, res,
                                                failAt, call.n + 1)} :
                    /\ results' = res
                    /\ call' = [start_date |-> start_date, end_date |-> end_date,
                                as_text |-> as_text, up |-> up, n |-> call.n + 1]
                    /\ marginal_prices' = s.table
                    /\ version_history' = s.history
                    /\ last_version' = IF s.history = version_history THEN last_version
                                       ELSE [n |-> last_version.n + 1,
                                             prev |-> version_history,
                                             operation_type |-> <<"ANALYSIS">>,
                                             source_files |-> analysis_message(res)]
                    /\ UNCHANGED last_update
                    /\ last_save' = [prev |-> marginal_prices,
                                     prev_history |-> version_history,
                                     saved |-> res # {}, raised |-> s.raised,
                                     failAt |-> failAt,
                                     min_date |-> IF res = {} THEN NoDate
                                                  ELSE MinOf({r.date : r \in res}),
                                     max_date |-> IF res = {} THEN NoDate
                                                  ELSE MaxOf({r.date : r \in res}),
                                     run |-> call.n + 1]
    /\ UNCHANGED <<afrr_data, provider_data>>
    /\ UNCHANGED <<ingest_vars, cli_vars, procs, clean_vars, request, last_afrr>>

ResolveAndSave == ProcessAnalysis({0})

ResolveAndSaveMayRaise == ProcessAnalysis(0..(2 * Cardinality(SavedSlots) + 3))

NextSave == ResolveAndSave

SpecSave == InitSave /\ [][NextSave]_vars

NextSaveRaise == ResolveAndSaveMayRaise

SpecSaveRaise == InitSave /\ [][NextSaveRaise]_vars

\* provider_cli --load [--archive]: load_excel_to_duckdb on the files of the
\* raw directory, then the move of processed_files to the processed directory.
CliLoad ==
    /\ last_cli.n < MaxBatches
    /\ \E batch \in CliBatches, archive \in BOOLEAN :
         \E res \in {load_excel_to_duckdb(raw, batch, last_cli.n + 1)} :
           \E moved \in {IF archive
                          THEN {res.processed_files[i] : i \in 1..Len(res.processed_files)}
                          ELSE {}} :
             /\ raw' = res.table
             /\ processed' = [processed EXCEPT !.provider = @ \cup moved]
             /\ last_cli' = [op |-> "load", n |-> last_cli.n + 1, prev_clean |-> clean_table,
                             raised |-> FALSE,
                             committed |-> {r.file : r \in {x \in res.table.rows :
                                                              x.batch = last_cli.n + 1}},
                             moved |-> moved]
    /\ prev' = raw
    /\ UNCHANGED <<last, envs, clean_table>>
    /\ UNCHANGED <<resolver_vars, save_vars, procs, clean_vars, request, last_afrr>>

\* provider_cli --update: update_provider_data_in_db
CliUpdate ==
    /\ \E proceed \in BOOLEAN :
         \E res \in {update_provider_data_in_db(raw, clean_table, proceed)} :
             /\ clean_table' = res.clean
             /\ last_cli' = [op |-> "update", n |-> last_cli.n, prev_clean |-> clean_table,
                             raised |-> res.raised, committed |-> {}, moved |-> {}]
    /\ UNCHANGED <<ingest_vars, processed>>
    /\ UNCHANGED <<resolver_vars, save_vars, procs, clean_vars, request, last_afrr>>

NextCli == CliLoad \/ CliUpdate

\* the cleaned frames handed to update_provider_data: any of three bids, one
\* per delivery date
UpdatePool == {[date |-> d, price |-> 10 * d, capacity |-> 5] : d \in 1..3}

CleanedFrames == SUBSET UpdatePool

\* update_provider_data(cleaned_data, db_path) of provider/update_provider_data.py
UpdateProviderData ==
    /\ last_update.n < MaxUpdates
    /\ \E cleaned_data \in CleanedFrames :
         \E res \in {update_provider_data(clean_table, version_history, cleaned_data,
                                           last_update.n + 1)} :
             /\ clean_table' = res.table
             /\ version_history' = res.history
             /\ last_version' = [n |-> last_version.n + 1, prev |-> version_history,
                                 operation_type |-> <<table_name, "_update">>,
                                 source_files |-> [is_list |-> TRUE, val |-> <<table_name>>]]
             /\ last_update' = [n |-> last_update.n + 1, deprecated |-> FALSE,
                                prev |-> clean_table, data |-> cleaned_data]
    /\ UNCHANGED <<marginal_prices, last_save, processed, last_cli>>
    /\ UNCHANGED <<ingest_vars, resolver_vars, procs, clean_vars, request, last_afrr>>

\* update_provider_data of provider/deprecated/update_provider_data.py
UpdateProviderDataDeprecated ==
    /\ last_update.n < MaxUpdates
    /\ \E cleaned_data \in CleanedFrames :
         \E res \in {update_provider_data_deprecated(clean_table, version_history,
                                                      cleaned_data, last_update.n + 1)} :
             /\ clean_table' = res.table
             /\ version_history' = res.history
             /\ last_version' = [n |-> last_version.n + 1, prev |-> version_history,
                                 operation_type |-> <<"IMPORT">>,
                                 source_files |-> import_message(cleaned_data)]
             /\ last_update' = [n |-> last_update.n + 1, deprecated |-> TRUE,
                                prev |-> clean_table, data |-> cleaned_data]
    /\ UNCHANGED <<marginal_prices, last_save, processed, last_cli>>
    /\ UNCHANGED <<ingest_vars, resolver_vars, procs, clean_vars, request, last_afrr>>

NextUpdate == UpdateProviderData \/ UpdateProviderDataDeprecated

\* ---- the raw frames handed to a cleaning run; each run cleans one frame
POS_001 == <<"P", "O", "S", "_", "0", "0", "1">>

PriceCells ==
    {[null |-> TRUE, text |-> <<>>],
     [null |-> FALSE, text |-> <<"1", "2", ",", "5">>],
     [null |-> FALSE, text |-> <<"1", "2", ".", "5">>],
     [null |-> FALSE, text |-> <<"-", "3">>],
     [null |-> FALSE, text |-> <<"a", "b", "c">>],
     [null |-> FALSE, text |-> <<"1", ".", "2", "3", "4", ",", "5">>]}

RawRows == [product : {NEG_001, POS_001}, price : PriceCells,
            direction : {"PROVIDER_TO_GRID", "GRID_TO_PROVIDER"}]

RawFrames == UNION {[1..n -> RawRows] : n \in 1..MaxFrameRows}

\* clean_provider_data(df) of provider/cleaner.py
CleanProviderData ==
    /\ cleaned.op = "none"
    /\ \E df \in RawFrames :
           /\ frame' = df
           /\ cleaned' = clean_provider_data(df)
    /\ UNCHANGED <<ingest_vars, resolver_vars, save_vars, cli_vars, procs, request, last_afrr>>

\* the cleaning step of update_provider_data_in_db on the raw rows df
InsertCleanDataView ==
    /\ cleaned.op = "none"
    /\ \E df \in RawFrames :
           /\ frame' = df
           /\ cleaned' = insert_clean_data_view(df)
    /\ UNCHANGED <<ingest_vars, resolver_vars, save_vars, cli_vars, procs, request, last_afrr>>

NextClean == CleanProviderData \/ InsertCleanDataView

\* ---- get_with_retry, one request at a time
RetryArgs == {NoArg} \cup {[given |-> TRUE, val |-> k] : k \in 0..3}

\* get_with_retry(url, max_retries): the call enters the loop
GetWithRetry ==
    /\ request.pc \in {"idle", "returned", "raised"}
    /\ request.n < MaxRequests
    /\ \E arg \in RetryArgs :
           request' = [pc |-> "get", n |-> request.n + 1, arg |-> arg,
                       max_retries |-> or_MAX_RETRIES(arg), attempt |-> 0, events |-> <<>>]
    /\ UNCHANGED <<ingest_vars, resolver_vars, save_vars, cli_vars, procs, clean_vars, last_afrr>>

\* session.get and raise_for_status of one attempt: the response is returned,
\* or a RequestException is caught; on the last attempt it is raised again
SessionGet ==
    /\ request.pc = "get"
    /\ \E ok \in BOOLEAN :
           request' =
               IF ok
               THEN [request EXCEPT !.pc = "returned",
                                    !.events = Append(@, [e |-> "get_ok", t |-> sleep_time(0, 0)])]
               ELSE [request EXCEPT !.pc = IF request.attempt < request.max_retries - 1
                                           THEN "sleep" ELSE "raised",
                                    !.events = Append(@, [e |-> "get_fail",
                                                          t |-> sleep_time(0, 0)])]
    /\ UNCHANGED <<ingest_vars, resolver_vars, save_vars, cli_vars, procs, clean_vars, last_afrr>>

\* time.sleep(sleep_time), then the next iteration of the loop
Sleep ==
    /\ request.pc = "sleep"
    /\ \E jitter \in {0, 1} :
           request' = [request EXCEPT !.pc = "get",
                                      !.attempt = @ + 1,
                                      !.events = Append(@, [e |-> "sleep",
                                                            t |-> sleep_time(request.attempt,
                                                                             jitter)])]
    /\ UNCHANGED <<ingest_vars, resolver_vars, save_vars, cli_vars, procs, clean_vars, last_afrr>>

NextScrape == GetWithRetry \/ SessionGet \/ Sleep

\* process_afrr_workflow() on the files of the raw directory
ProcessAfrrWorkflow ==
    /\ \E batch \in AfrrBatches :
         \E fails \in [1..Len(batch) -> 0..3] :
           \E res \in {process_afrr_workflow(afrr_data, batch, fails)} :
             /\ afrr_data' = res.rows
             /\ processed' = [processed EXCEPT !.afrr = @ \cup res.moved]
             /\ last_cli' = [op |-> "afrr", n |-> last_cli.n, prev_clean |-> clean_table,
                             raised |-> res.raised, committed |-> res.committed,
                             moved |-> res.moved]
    /\ UNCHANGED <<provider_data, results, call, clean_table>>
    /\ UNCHANGED <<ingest_vars, save_vars, procs, clean_vars, request, last_afrr>>

NextAfrr == ProcessAfrrWorkflow

\* ---- the frames and months of direct save_afrr_to_duckdb calls
AfrrFrames == SUBSET {[Datum |-> 1, von |-> VonOf(1), vol |-> 5 * UnitsPerMW],
                      [Datum |-> 2, von |-> VonOf(1), vol |-> 7 * UnitsPerMW]}

AfrrMonths == {[month |-> 9, year |-> 2024], [month |-> 10, year |-> 2024],
               [month |-> 9, year |-> 2025]}

\* save_afrr_to_duckdb(cleaned_afrr_data, month, year)
SaveAfrrToDuckdb ==
    /\ last_afrr.n < MaxAfrrSaves
    /\ \E data \in AfrrFrames, my \in AfrrMonths, failAt \in 0..3 :
         \E res \in {save_afrr_to_duckdb(afrr_data, data, my.month, my.year, failAt)} :
             /\ afrr_data' = res.rows
             /\ last_afrr' = [n |-> last_afrr.n + 1, prev |-> afrr_data, data |-> data,
                              month |-> my.month, year |-> my.year,
                              row_count |-> res.row_count, raised |-> res.raised]
    /\ UNCHANGED <<provider_data, results, call>>
    /\ UNCHANGED <<ingest_vars, save_vars, cli_vars, procs, clean_vars, request>>

NextAfrrSave == SaveAfrrToDuckdb

\* run_etl of process p up to conn.close(): the extraction loop, then, when a
\* sheet was extracted, CREATE TABLE IF NOT EXISTS and the DELETE of the date
\* range on a connection of its own, committed at once.
EtlDelete(p) ==
    /\ procs[p].pc = "idle"
    /\ \E batch \in Batches :
         \E st \in {etl_extract(batch, 1, NoExtract)} :
             /\ procs' = [procs EXCEPT ![p] = [pc |-> IF st.extracted # <<>> THEN "deleted"
                                                      ELSE "done",
                                               batch |-> batch, st |-> st]]
             /\ raw' = IF st.extracted = <<>> THEN raw
                       ELSE IF st.min_date # NoDate /\ st.max_date # NoDate
                       THEN [exists |-> TRUE,
                             rows |-> DeleteBetween(raw.rows, st.min_date, st.max_date)]
                       ELSE create_table_if_not_exists(raw)
    /\ UNCHANGED <<prev, last, envs>>
    /\ UNCHANGED <<resolver_vars, save_vars, cli_vars, clean_vars, request, last_afrr>>

\* the rest of run_etl of process p: load_provider_data inserts what it extracted
EtlLoad(p) ==
    /\ procs[p].pc = "deleted"
    /\ raw' = load_provider_data(raw, procs[p].st.extracted, p)
    /\ procs' = [procs EXCEPT ![p].pc = "done"]
    /\ UNCHANGED <<prev, last, envs>>
    /\ UNCHANGED <<resolver_vars, save_vars, cli_vars, clean_vars, request, last_afrr>>

NextConcurrent == \E p \in Procs : EtlDelete(p) \/ EtlLoad(p)

SpecConcurrent == Init /\ [][NextConcurrent]_vars

SpecAfrr == Init /\ [][NextAfrr]_vars

SpecCli == Init /\ [][NextCli]_vars

SpecUpdate == Init /\ [][NextUpdate]_vars

SpecAfrrSave == Init /\ [][NextAfrrSave]_vars

SpecClean == Init /\ [][NextClean]_vars

SpecScrape == Init /\ [][NextScrape]_vars

SpecFallback == InitFallback /\ [][NextResolve]_vars

SpecResolve == InitResolve /\ [][NextResolve]_vars

\* ingestion where every statement of the store succeeds
Next == RunEtl \/ LoadExcelFiles

Spec == Init /\ [][Next]_vars

\* ingestion through load_excel_files_to_duckdb where any statement may raise
NextRaise == LoadExcelFilesMayRaise

SpecRaise == Init /\ [][NextRaise]_vars

\* ------------------------------------------------- ingestion: properties
\* the files of a batch that are readable and whose sheet has every required column
PassingFiles(batch) == {i \in 1..Len(batch) : batch[i].readable /\ batch[i].sheet.cols}

\* the files of a batch whose sheet also has at least one DELIVERY_DATE value
DatedFiles(batch) == {i \in PassingFiles(batch) : batch[i].sheet.dates \ {NoDate} # {}}

\* the rows of files I of a batch, as stored by ingestion number b
RowsOfFiles(batch, I, b) ==
    UNION {{[date |-> d, file |-> batch[i].name, batch |-> b] : d \in batch[i].sheet.dates} :
           i \in I}

\* the rows of a table that ingestion number b inserted
InsertedBy(t, b) == {r \in t.rows : r.batch = b}

\* the rows of a table without the ingestion that stored them
Content(t) == {[date |-> r.date, file |-> r.file] : r \in t.rows}

\* the files the last operation ingested
Ingested(o) ==
    IF o.op = "run_etl" THEN PassingFiles(o.batch)
    ELSE IF o.op = "load" /\ o.failAt = 0 /\ DatedFiles(o.batch) = 1..Len(o.batch)
    THEN 1..Len(o.batch)
    ELSE {}

\* the delivery dates of the files the last operation ingested
IngestedDates(o) == UNION {o.batch[i].sheet.dates \ {NoDate} : i \in Ingested(o)}

SomeFileFails(o) == PassingFiles(o.batch) # 1..Len(o.batch)

C2_RollbackRestoresStore ==
    (last.op = "load" /\ last.failAt # 0)
        => /\ raw = prev
           /\ InsertedBy(raw, last.id) = {}
           /\ last.loaded = 0

C2_Witness ==
    /\ last.op = "load"
    /\ Len(last.batch) = 2
    /\ last.failAt = 4
    /\ last.batch[1].sheet.dates # {}
    /\ \E r \in prev.rows : r.date # NoDate /\ last.min_date <= r.date /\ r.date <= last.max_date
    /\ raw = prev

\* C3: after any sequence of successful ingestions the rows of each delivery
\* date come from one ingestion, the most recent one whose date range contains
\* that date.
C3_OneBatchPerDate ==
    \A r \in raw.rows :
        r.date # NoDate
            => /\ \A q \in raw.rows : q.date = r.date => q.batch = r.batch
               /\ envs[r.batch].min <= r.date /\ r.date <= envs[r.batch].max
               /\ \A b \in (r.batch + 1)..Len(envs) :
                      ~(envs[b].min # NoDate /\ envs[b].min <= r.date /\ r.date <= envs[b].max)

C3_Witness ==
    /\ Len(envs) = 2
    /\ envs[1].min # NoDate /\ envs[2].min # NoDate
    /\ envs[1].min < envs[2].min /\ envs[2].min <= envs[1].max
    /\ InsertedBy(raw, 1) # {}
    /\ InsertedBy(raw, 2) # {}

\* C4 as stated: running the same batch twice in a row leaves the same number
\* of rows and the same rows as running it once.
C4_Idempotent ==
    last.again
        => /\ Cardinality(raw.rows) = Cardinality(prev.rows)
           /\ Content(raw) = Content(prev)

\* C5: an ingestion deletes every stored row whose delivery date lies in
\* [minDate, maxDate] of the dates it ingests, also on dates it does not
\* contain, and leaves every stored row outside that range in place.
C5_EnvelopeReplaced ==
    IngestedDates(last) # {}
        => \A r \in prev.rows :
               IF /\ r.date # NoDate
                  /\ MinOf(IngestedDates(last)) <= r.date
                  /\ r.date <= MaxOf(IngestedDates(last))
               THEN r \notin raw.rows
               ELSE r \in raw.rows

C5_Witness ==
    /\ IngestedDates(last) # {}
    /\ \E r \in prev.rows :
           /\ r.date # NoDate
           /\ r.date \notin IngestedDates(last)
           /\ MinOf(IngestedDates(last)) < r.date
           /\ r.date < MaxOf(IngestedDates(last))
           /\ r \notin raw.rows
    /\ \E r \in prev.rows : r \in raw.rows

\* --------------------------------------------------- resolver: properties
RECURSIVE SumCapacity(_)
SumCapacity(S) ==
    IF S = {} THEN 0
    ELSE LET o == CHOOSE x \in S : TRUE IN o.capacity + SumCapacity(S \ {o})

\* the offers the resolver found for the interval of a result row
OffersOf(r) == found_offers(provider_data, r.date, sequential_number(r.quarter_hour_start))

CapacityBelow(r, p) == SumCapacity({o \in OffersOf(r) : o.price < p})

CapacityUpTo(r, p) == SumCapacity({o \in OffersOf(r) : o.price <= p})

\* rows of intervals with activation of at least 0.001 MW and some offer
Activated(r) == r.activated_volume_mw >= Epsilon /\ OffersOf(r) # {}

Covered(r) == r.activated_volume_mw <= SumCapacity(OffersOf(r))

\* the scenario of the specification: offers (10, 5), (20, 5), (30, 10) for NEG_001
ScenarioRow(r, volume) ==
    /\ r.product_code = <<"N", "E", "G", "_", "0", "0", "1">>
    /\ r.activated_volume_mw = volume * UnitsPerMW
    /\ {[price |-> o.price, capacity |-> o.capacity] : o \in OffersOf(r)}
           = {[price |-> 10, capacity |-> 5 * UnitsPerMW],
              [price |-> 20, capacity |-> 5 * UnitsPerMW],
              [price |-> 30, capacity |-> 10 * UnitsPerMW]}

\* C6: with activation of at least 0.001 MW and offers that cover it, the
\* marginal price is the price of the first offer, in ascending price order, at
\* which the running sum of capacities reaches the activated volume: the offers
\* cheaper than it do not cover the volume, the offers up to it do.
C6_MarginalPriceIsFirstCovering ==
    \A r \in results :
        (Activated(r) /\ Covered(r))
            => /\ \E o \in OffersOf(r) : o.price = r.marginal_price
               /\ CapacityBelow(r, r.marginal_price) < r.activated_volume_mw
               /\ CapacityUpTo(r, r.marginal_price) >= r.activated_volume_mw

C6_Witness ==
    \E r \in results : ScenarioRow(r, 7) /\ r.marginal_price = 20

\* C7 as stated: when the activated volume exceeds the total capacity of the
\* offers, the marginal price is the price of the most expensive offer.
C7_LastOfferWhenExceeded ==
    \A r \in results :
        (Activated(r) /\ ~Covered(r))
            => /\ \E o \in OffersOf(r) : o.price = r.marginal_price
               /\ \A o \in OffersOf(r) : o.price <= r.marginal_price

Requested == {a \in afrr_data : call.start_date <= a.Datum /\ a.Datum <= call.end_date}

RowsFor(a) == {r \in results : r.date = a.Datum /\ r.quarter_hour_start = a.von}

\* C9: every interval whose activated volume is below 0.001 MW in magnitude
\* gets exactly one row, with no marginal price and available capacity 0,
\* whatever bids exist.
C9_NoActivationRow ==
    call.n > 0
        => \A a \in Requested :
               Abs(a.vol) < Epsilon
                   => /\ Cardinality(RowsFor(a)) = 1
                      /\ \A r \in RowsFor(a) :
                             /\ r.marginal_price = NoPrice
                             /\ r.available_capacity_mw = 0
                             /\ r.activated_volume_mw = a.vol

C9_Witness ==
    /\ call.n > 0
    /\ \E a \in Requested :
           /\ a.vol # 0 /\ Abs(a.vol) < Epsilon
           /\ \E o \in provider_data :
                  o.date = a.Datum /\ o.product = product_code[sequential_number(a.von)]
           /\ \E r \in RowsFor(a) : r.marginal_price = NoPrice

\* C10: a resolved day has exactly 96 rows, one per quarter-hour index 1..96,
\* however many of its intervals have no activation or no offers.
C10_NinetySixRows ==
    call.n > 0
        => \A d \in {a.Datum : a \in Requested} :
               /\ Cardinality({r \in results : r.date = d}) = QuartersPerDay
               /\ {sequential_number(r.quarter_hour_start) : r \in {x \in results : x.date = d}}
                      = 1..QuartersPerDay
               /\ \A r \in {x \in results : x.date = d} :
                      r.product_code = product_code[sequential_number(r.quarter_hour_start)]

C10_Witness ==
    /\ call.n > 0
    /\ Cardinality({r \in results : r.date = 1}) = QuartersPerDay
    /\ \E r \in results : r.date = 1 /\ r.marginal_price # NoPrice
    /\ \E r \in results : r.date = 1 /\ Abs(r.activated_volume_mw) < Epsilon
    /\ \E r \in results :
           /\ r.date = 1 /\ r.activated_volume_mw >= Epsilon
           /\ OffersOf(r) = {}

\* C11 as stated: for the same offers and two activated volumes v1 <= v2, the
\* marginal price resolved for v2 is a price, and never lower than the one
\* resolved for v1.
C11_PriceMonotoneInVolume ==
    \A r1 \in results, r2 \in results :
        (/\ Activated(r1) /\ Activated(r2)
         /\ r1.quarter_hour_start = r2.quarter_hour_start
         /\ {[id |-> o.id] : o \in OffersOf(r1)} = {[id |-> o.id] : o \in OffersOf(r2)}
         /\ r1.activated_volume_mw <= r2.activated_volume_mw
         /\ r1.marginal_price # NoPrice)
            => /\ r2.marginal_price # NoPrice
               /\ r2.marginal_price >= r1.marginal_price

\* C12 as stated: the marginal price of a row is null exactly when the interval
\* has no activation or no matching offer; an interval with activation and at
\* least one matching offer gets a price.
C12_NullOnlyWithoutActivationOrOffers ==
    \A r \in results :
        r.marginal_price = NoPrice
            <=> (no_activation(r.activated_volume_mw) \/ OffersOf(r) = {})

\* the bids of the day of row r stored under the given spellings
StoredUnder(r, spellings) ==
    {o \in provider_data : o.date = r.date /\ o.product \in spellings}

\* the fallback spellings of NEG_001, in the stated order, the wildcard last
FallbackSpellings ==
    << {<<"N", "E", "G", "-", "0", "0", "1">>},
       {<<"N", "E", "G", "0", "0", "1">>},
       {<<"n", "e", "g", "_", "0", "0", "1">>},
       {<<"N", "E", "G", "_", "1">>},
       {<<"N", "E", "G", " ", "0", "0", "1">>, <<"N", "E", "G", "-", "0", "0", "1">>,
        <<"N", "E", "G", "0", "0", "1">>, <<"n", "e", "g", "_", "0", "0", "1">>} >>

ListedSpellings == UNION {FallbackSpellings[k] : k \in 1..4}

\* rows of NEG_001 with activation whose exact code has no bids
NeedsFallback(r) ==
    /\ r.product_code = NEG_001
    /\ ~no_activation(r.activated_volume_mw)
    /\ StoredUnder(r, {NEG_001}) = {}

InSpan(x) == last_save.min_date <= x.row.date /\ x.row.date <= last_save.max_date

\* C14: the marginal_prices table never holds two records for one date and
\* quarter hour, and after a save every record in the span of the batch is a
\* record of that batch: the save replaced what the span held before.
C14_OneRecordPerInterval ==
    /\ \A x \in marginal_prices.rows, y \in marginal_prices.rows :
           (/\ x.row.date = y.row.date
            /\ x.row.quarter_hour_start = y.row.quarter_hour_start) => x = y
    /\ (last_save.saved /\ ~last_save.raised)
           => /\ \A x \in marginal_prices.rows : InSpan(x) => x.run = last_save.run
              /\ {x.row : x \in {y \in marginal_prices.rows : y.run = last_save.run}} = results
              /\ {x \in marginal_prices.rows : ~InSpan(x)}
                     = {x \in last_save.prev.rows : ~InSpan(x)}

C14_Witness ==
    /\ last_save.saved /\ ~last_save.raised
    /\ \E x \in last_save.prev.rows : InSpan(x)
    /\ \E x \in marginal_prices.rows : x.run < last_save.run
    /\ \E x \in marginal_prices.rows : x.run = last_save.run

\* C15 as stated: a save that raises leaves the marginal_prices table exactly
\* as it was before the call.
C15_FailedSaveLeavesTable ==
    last_save.raised => marginal_prices.rows = last_save.prev.rows

\* C20 as stated: every successful ingestion batch and every successful
\* resolve-and-save appends exactly one record to the version history, and an
\* operation that fails or is rolled back appends none.
C20_OneAuditRecordPerOperation ==
    [][/\ (/\ nbatch' = nbatch + 1
           /\ last'.valid /\ ~last'.raised /\ last'.loaded > 0)
              => Len(version_history') = Len(version_history) + 1
       /\ (/\ call'.n = call.n + 1
           /\ last_save'.saved /\ ~last_save'.raised)
              => Len(version_history') = Len(version_history) + 1
       /\ (\/ nbatch' = nbatch + 1 /\ (last'.raised \/ ~last'.valid)
           \/ call'.n = call.n + 1 /\ last_save'.raised)
              => version_history' = version_history]_vars

\* ------------------------------------------------ clean table: properties
\* C16 as stated: an update that fails after its DELETE has run leaves the
\* clean table with the rows it held before the call.
C16_FailedUpdateKeepsRows ==
    (last_cli.op = "update" /\ last_cli.raised)
        => clean_table.rows = last_cli.prev_clean.rows

\* C17 as stated: the clean table holds each bid row of each source file at
\* most once, whatever raw loads and updates came before.
C17_NoDuplicateBids ==
    \A x \in clean_table.rows, y \in clean_table.rows :
        (x.file = y.file /\ x.date = y.date) => x = y

\* C19 as stated: the files an operation moves to the processed directory are
\* files whose rows that operation committed to the store; a file whose load
\* or save failed is not moved.
C19_ArchivedOnlyAfterCommit ==
    last_cli.moved \subseteq last_cli.committed

\* ------------------------------------------------- concurrency: properties
\* the store after the two batches ran one after the other, p first
SerialResult(p, q) ==
    run_etl(run_etl([exists |-> FALSE, rows |-> {}], procs[p].batch, p).table,
            procs[q].batch, q).table

\* C18 as stated: when two batches have run at the same time, the store
\* equals the result of running them one after the other in some order, and
\* no date holds rows of both.
C18_BatchesSerialized ==
    (\A p \in Procs : procs[p].pc = "done")
        => /\ raw.rows \in {SerialResult(1, 2).rows, SerialResult(2, 1).rows}
           /\ \A x \in raw.rows, y \in raw.rows :
                  (x.date = y.date /\ x.date # NoDate) => x.batch = y.batch

C30_TieOrderIrrelevant ==
    call.n > 0
        => results = calculate_marginal_prices(afrr_data, provider_data,
                                               call.start_date, call.end_date,
                                               call.as_text, ~call.up)

C30_Witness ==
    /\ call.n > 0
    /\ \E r \in results :
           /\ Activated(r) /\ Covered(r)
           /\ \E o1 \in OffersOf(r), o2 \in OffersOf(r) :
                  /\ o1.id # o2.id /\ o1.price = o2.price /\ o1.capacity # o2.capacity
                  /\ r.marginal_price = o1.price
           /\ order_by_price(OffersOf(r), TRUE) # order_by_price(OffersOf(r), FALSE)

\* -------------------------------------------------- run_etl: the summary
\* C26: run_etl skips every unreadable file and failing sheet with one errors
\* entry each and loads every row of the sheets that passed: files_processed is
\* the number of files given, rows_loaded is the number of rows of the passing
\* sheets, these rows are the ones the run inserted, and on a table that was
\* empty the table's row count equals rows_loaded.
C26_SummaryCountsSkipped ==
    last.op = "run_etl"
        => /\ last.files_processed = Len(last.batch)
           /\ last.errors = Len(last.batch) - Cardinality(PassingFiles(last.batch))
           /\ last.loaded
                  = SumSeq([i \in 1..Len(last.batch) |->
                               IF i \in PassingFiles(last.batch)
                               THEN Cardinality(last.batch[i].sheet.dates) ELSE 0])
           /\ Cardinality(InsertedBy(raw, last.id)) = last.loaded
           /\ prev.rows = {} => Cardinality(raw.rows) = last.loaded

C26_Witness ==
    /\ last.op = "run_etl"
    /\ prev.rows = {}
    /\ Len(last.batch) = 2
    /\ last.files_processed = 2
    /\ last.errors = 1
    /\ \E i \in PassingFiles(last.batch) : Cardinality(last.batch[i].sheet.dates) = 2
    /\ \E i \in 1..2 : last.batch[i].readable /\ ~last.batch[i].sheet.cols
    /\ Cardinality(raw.rows) = 2
    /\ last.loaded = 2

\* ------------------------------------ validate_all_excels_in_directory
\* C27: the validation succeeds only when every file is readable and its
\* sheet has every required column and at least one DELIVERY_DATE value; a
\* failure carries no date range and no sheet list; a success carries the
\* smallest and the largest DELIVERY_DATE over all sheets and lists every sheet
\* exactly once.
C27_ValidationOutcome ==
    last.op = "load"
        => LET v == validate_all_excels_in_directory(last.batch)
               all_dates == UNION {NonEmptyDates(last.batch[i].sheet) :
                                   i \in 1..Len(last.batch)}
           IN  /\ last.valid = v.ok
               /\ v.ok => DatedFiles(last.batch) = 1..Len(last.batch)
               /\ ~v.ok => v.min_date = NoDate /\ v.max_date = NoDate /\ v.pairs = <<>>
               /\ v.ok => /\ v.min_date = MinOf(all_dates)
                           /\ v.max_date = MaxOf(all_dates)
                           /\ v.min_date <= v.max_date
                           /\ last.min_date = v.min_date /\ last.max_date = v.max_date
                           /\ Len(v.pairs) = Len(last.batch)
                           /\ \A i \in 1..Len(last.batch) :
                                  v.pairs[i] = [file |-> last.batch[i].name,
                                                sheet |-> last.batch[i].sheet]

C27_Witness ==
    /\ last.op = "load"
    /\ last.valid
    /\ Len(last.batch) = 2
    /\ last.min_date = MinOf(NonEmptyDates(last.batch[2].sheet))
    /\ last.max_date = MaxOf(NonEmptyDates(last.batch[1].sheet))
    /\ last.min_date < MinOf(NonEmptyDates(last.batch[1].sheet))
    /\ last.max_date > MaxOf(NonEmptyDates(last.batch[2].sheet))
    /\ Len(validate_all_excels_in_directory(last.batch).pairs) = 2

\* ------------------------------------------------- the version history
\* C21: version ids strictly increase in call order, so none is used twice;
\* a call of add_version_metadata leaves every earlier row as it was and adds
\* exactly one row, whose id is above every earlier id and which carries the
\* operation type and the text of the source files it was given.
C21_VersionHistoryAppendOnly ==
    /\ \A i \in 1..Len(version_history), j \in 1..Len(version_history) :
           i < j => version_history[i].version_id < version_history[j].version_id
    /\ last_version.n > 0
           => /\ Len(version_history) = Len(last_version.prev) + 1
              /\ SubSeq(version_history, 1, Len(last_version.prev)) = last_version.prev
              /\ \A i \in 1..Len(last_version.prev) :
                     last_version.prev[i].version_id
                         < version_history[Len(version_history)].version_id
              /\ version_history[Len(version_history)].operation_type
                     = last_version.operation_type
              /\ version_history[Len(version_history)].source_files
                     = IF last_version.source_files.is_list
                       THEN <<"[", "'", last_version.source_files.val[1], "'", "]">>
                       ELSE last_version.source_files.val

C21_Witness ==
    /\ Len(version_history) = 3
    /\ version_history[1].operation_type = <<"IMPORT">>
    /\ version_history[2].operation_type = <<table_name, "_update">>
    /\ version_history[2].source_files = <<"[", "'", "provider_data", "'", "]">>
    /\ version_history[3].version_id = 3
    /\ last_version.n = 3

\* ------------------------------------------------- update_provider_data
\* C28: after update_provider_data, the rows whose delivery date lies outside
\* the date range of the new data are the ones the table held before, and the
\* rows inside the range are exactly the new rows.
C28_OnlyRangeReplaced ==
    (last_update.n > 0 /\ last_update.data # {})
        => LET dates == {r.date : r \in last_update.data}
               inside(x) == MinOf(dates) <= x.row.date /\ x.row.date <= MaxOf(dates)
           IN  /\ {x \in clean_table.rows : ~inside(x)}
                      = {x \in last_update.prev.rows : ~inside(x)}
               /\ {x \in clean_table.rows : inside(x)}
                      = {[row |-> r, run |-> last_update.n] : r \in last_update.data}

\* --------------------------------------------- provider cleaning: properties
\* the value, in tenths, of the price texts that are numbers
ListedPrice(text) ==
    CASE text = <<"1", "2", ",", "5">> -> 125
      [] text = <<"1", "2", ".", "5">> -> 125
      [] text = <<"-", "3">> -> 0 - 30

NumberTexts == {<<"1", "2", ",", "5">>, <<"1", "2", ".", "5">>, <<"-", "3">>}

UnparsableTexts == {<<"a", "b", "c">>, <<"1", ".", "2", "3", "4", ",", "5">>}

NegRows == {i \in 1..Len(frame) : frame[i].product = NEG_001}

\* C22: in a cleaned frame, a NEG bid with price P and payment direction
\* PROVIDER_TO_GRID has price -P, and a bid with the other direction has P.
C22_SignConvention ==
    (cleaned.op # "none" /\ ~cleaned.raised)
        => \A i \in NegRows :
               (~frame[i].price.null /\ frame[i].price.text \in NumberTexts)
                   => \E x \in cleaned.rows :
                          /\ x.id = i
                          /\ ~x.price.missing
                          /\ x.price.val = IF frame[i].direction = "PROVIDER_TO_GRID"
                                           THEN 0 - ListedPrice(frame[i].price.text)
                                           ELSE ListedPrice(frame[i].price.text)

C22_Witness ==
    /\ cleaned.op = "clean_provider_data"
    /\ ~cleaned.raised
    /\ \E x \in cleaned.rows, y \in cleaned.rows :
           /\ frame[x.id].direction = "PROVIDER_TO_GRID" /\ x.price.val = 0 - 125
           /\ frame[y.id].direction = "GRID_TO_PROVIDER" /\ y.price.val = 125

\* C23: a NEG bid whose price text is not a number does not fail the cleaning:
\* the run does not raise, and the bid is kept with a missing price.
C23_UnparsablePriceKept ==
    cleaned.op # "none"
        => \A i \in NegRows :
               (~frame[i].price.null /\ frame[i].price.text \in UnparsableTexts)
                   => /\ ~cleaned.raised
                      /\ \E x \in cleaned.rows : x.id = i /\ x.price.missing

\* ----------------------------------------------- get_with_retry: properties
Gets == {k \in 1..Len(request.events) : request.events[k].e \in {"get_ok", "get_fail"}}

C25_MonthReplaced ==
    (last_afrr.n > 0 /\ ~last_afrr.raised)
        => LET same(r) == r.month = last_afrr.month /\ r.year = last_afrr.year
           IN  /\ {[Datum |-> r.Datum, von |-> r.von, vol |-> r.vol] :
                        r \in {x \in afrr_data : same(x)}} = last_afrr.data
               /\ {r \in afrr_data : ~same(r)} = {r \in last_afrr.prev : ~same(r)}
               /\ last_afrr.row_count = Cardinality(last_afrr.data)

C25_Witness ==
    /\ last_afrr.n = 3
    /\ ~last_afrr.raised
    /\ last_afrr.row_count = 1
    /\ \E r \in last_afrr.prev :
           /\ r.month = last_afrr.month /\ r.year = last_afrr.year
           /\ r \notin afrr_data
    /\ \E r \in afrr_data : r.month = last_afrr.month /\ r.year # last_afrr.year

====
